---- MODULE Spec2Model ----
(***************************************************************************)
(* Model of the SMTP relay: the per-connection loop of handle_connection   *)
(* (src/smtp/mod.rs), the session engine SmtpSession (src/smtp/session.rs) *)
(* and the sequential dispatch to the configured strategies.               *)
(*                                                                         *)
(* A string is a sequence of one-character strings; Option<String> is a    *)
(* sequence of length 0 (None) or 1 (Some).                                *)
(***************************************************************************)
EXTENDS Integers, Sequences

(* ------------------------------ bounds --------------------------------- *)
\* recipients a client has accepted in one transaction
MaxRcpts == 2
\* body lines (terminator excluded) a client sends in one data phase
MaxDataLines == 2
\* length of the longest configured strategy list
MaxSinks == 2

(* --------------------------- string helpers ---------------------------- *)
LowerChars == <<"a","b","c","d","e","f","g","h","i","j","k","l","m",
                "n","o","p","q","r","s","t","u","v","w","x","y","z">>
UpperChars == <<"A","B","C","D","E","F","G","H","I","J","K","L","M",
                "N","O","P","Q","R","S","T","U","V","W","X","Y","Z">>

\* char::to_uppercase on the characters of the model's alphabet
ToUpperCh(ch) ==
    IF \E i \in 1..26 : LowerChars[i] = ch
    THEN UpperChars[CHOOSE i \in 1..26 : LowerChars[i] = ch]
    ELSE ch

\* char::to_lowercase on the characters of the model's alphabet
ToLowerCh(ch) ==
    IF \E i \in 1..26 : UpperChars[i] = ch
    THEN LowerChars[CHOOSE i \in 1..26 : UpperChars[i] = ch]
    ELSE ch

\* str::to_uppercase
ToUpper(s) == [i \in 1..Len(s) |-> ToUpperCh(s[i])]

\* str::to_lowercase
ToLower(s) == [i \in 1..Len(s) |-> ToLowerCh(s[i])]

\* char::is_whitespace
IsWhitespace(ch) == ch \in {" ", "\t", "\r", "\n"}

\* str::starts_with
StartsWith(s, p) == Len(s) >= Len(p) /\ SubSeq(s, 1, Len(p)) = p

\* &s[n..]
SliceFrom(s, n) == SubSeq(s, n + 1, Len(s))

\* str::trim_start
RECURSIVE TrimStart(_)
TrimStart(s) ==
    IF s # <<>> /\ IsWhitespace(Head(s)) THEN TrimStart(Tail(s)) ELSE s

\* str::trim_end
RECURSIVE TrimEnd(_)
TrimEnd(s) ==
    IF s # <<>> /\ IsWhitespace(s[Len(s)])
    THEN TrimEnd(SubSeq(s, 1, Len(s) - 1)) ELSE s

\* str::trim
Trim(s) == TrimEnd(TrimStart(s))

\* str::trim_start_matches(char)
RECURSIVE TrimStartMatches(_, _)
TrimStartMatches(s, ch) ==
    IF s # <<>> /\ Head(s) = ch THEN TrimStartMatches(Tail(s), ch) ELSE s

\* str::trim_end_matches(char)
RECURSIVE TrimEndMatches(_, _)
TrimEndMatches(s, ch) ==
    IF s # <<>> /\ s[Len(s)] = ch
    THEN TrimEndMatches(SubSeq(s, 1, Len(s) - 1), ch) ELSE s

\* str::trim_start_matches(&str): strips every leading repetition of p
RECURSIVE TrimStartMatchesStr(_, _)
TrimStartMatchesStr(s, p) ==
    IF p # <<>> /\ StartsWith(s, p)
    THEN TrimStartMatchesStr(SliceFrom(s, Len(p)), p) ELSE s

\* str::contains(&str)
Contains(s, sub) ==
    \E i \in 0..(Len(s) - Len(sub)) : SubSeq(s, i + 1, i + Len(sub)) = sub

\* str::split_whitespace: the maximal runs of non-whitespace characters
RECURSIVE SplitWs(_, _, _)
SplitWs(s, cur, acc) ==
    IF s = <<>> THEN (IF cur = <<>> THEN acc ELSE Append(acc, cur))
    ELSE IF IsWhitespace(Head(s))
         THEN SplitWs(Tail(s), <<>>, IF cur = <<>> THEN acc ELSE Append(acc, cur))
         ELSE SplitWs(Tail(s), Append(cur, Head(s)), acc)

SplitWhitespace(s) == SplitWs(s, <<>>, <<>>)

\* the position of the first "\n" of s at or after k, Len(s) + 1 if none
NextBreak(s, k) ==
    LET hits == { i \in k..Len(s) : s[i] = "\n" }
    IN  IF hits = {} THEN Len(s) + 1 ELSE CHOOSE i \in hits : \A j \in hits : i <= j

\* str::lines from position k on: split on "\n", the "\r" before a "\n"
\* dropped, no final empty line
RECURSIVE LinesFrom(_, _)
LinesFrom(s, k) ==
    IF k > Len(s) THEN <<>>
    ELSE LET e == NextBreak(s, k)
             raw == SubSeq(s, k, e - 1)
         IN  << IF e <= Len(s) /\ raw # <<>> /\ raw[Len(raw)] = "\r"
                THEN SubSeq(raw, 1, Len(raw) - 1) ELSE raw >>
             \o LinesFrom(s, e + 1)

Lines(s) == LinesFrom(s, 1)

\* [String]::join("")
RECURSIVE Join(_)
Join(ls) == IF ls = <<>> THEN <<>> ELSE Head(ls) \o Join(Tail(ls))

None == <<>>
Some(v) == <<v>>


(* ------------------------------ inputs --------------------------------- *)
\* The lines a client sends, each with its line terminator, as read_line
\* returns them.
AddrA == <<"a","@","x",".","c","o","m">>
AddrB == <<"b","@","y",".","c","o","m">>
AddrC == <<"c">>

LineEhlo      == <<"E","H","L","O","\r","\n">>
LineHeloLower == <<"h","e","l","o"," ","x","\r","\n">>
LineMailA     == <<"M","A","I","L"," ","F","R","O","M",":","<","a","@","x",".","c","o","m",">","\r","\n">>
LineMailLower == <<"m","a","i","l"," ","f","r","o","m",":","c","\n">>
LineMailBad   == <<"M","A","I","L","\r","\n">>
LineRcptB     == <<"R","C","P","T"," ","T","O",":","<","b","@","y",".","c","o","m",">","\r","\n">>
LineRcptLower == <<"r","c","p","t"," ","t","o",":","c","\n">>
LineRcptBad   == <<"R","C","P","T"," ","T","O","\r","\n">>
LineData      == <<"D","A","T","A","\r","\n">>
LineDataLower == <<"d","a","t","a","\n">>
LineQuit      == <<"Q","U","I","T","\r","\n">>
LineRset      == <<"R","S","E","T","\r","\n">>
LineNoop      == <<"N","O","O","P","\r","\n">>
LineUnknown   == <<"F","O","O","\r","\n">>
LineEmpty     == <<"\r","\n">>
LineDot       == <<".","\r","\n">>
LineSpaceDot  == <<" ",".","\r","\n">>
LineDotDotX   == <<".",".","x","\r","\n">>
LineDotDot    == <<".",".","\r","\n">>
LineDotX      == <<".","x","\r","\n">>
LineSubject   == <<"S","u","b","j","e","c","t",":"," ","H","i","\r","\n">>
LineHello     == <<"H","e","l","l","o","\r","\n">>

\* what a client may send while the session is in command mode
CmdLines ==
    { LineEhlo, LineHeloLower, LineMailA, LineMailLower, LineMailBad,
      LineRcptB, LineRcptLower, LineRcptBad, LineData, LineDataLower,
      LineQuit, LineRset, LineNoop, LineUnknown, LineEmpty, LineDot }

\* what a client may send while the session is in data mode
DataLines ==
    { LineDot, LineSpaceDot, LineDotDotX, LineDotDot, LineDotX,
      LineSubject, LineQuit }

\* the lines of the end-to-end exchange: a greeting, an envelope, a message
\* with a subject, an empty line and a body line, and its terminator
ScriptE2E ==
    << LineEhlo, LineMailA, LineRcptB, LineData,
       LineSubject, LineEmpty, LineHello, LineDot >>

\* an exchange with refused commands: a RCPT before any MAIL, a malformed
\* RCPT, a message of one dot-stuffed line, and QUIT
ScriptRetry ==
    << LineRcptB, LineMailLower, LineRcptLower, LineRcptBad, LineData,
       LineDotDotX, LineDot, LineQuit >>

\* the scripts a scripted client follows
Scripts == {ScriptE2E, ScriptRetry}

\* every line a client of the model sends
AllLines == CmdLines \cup DataLines \cup {LineHello}

\* the strategy kinds create_strategy can build, in the order the model
\* configures them
SinkKinds == <<"webhook", "resend">>
SinkKind(i) == SinkKinds[((i - 1) % 2) + 1]

\* the configured strategy lists: every length up to MaxSinks
StrategyLists == { [i \in 1..n |-> SinkKind(i)] : n \in 0..MaxSinks }


(* --------------------------- session engine ---------------------------- *)
\* the responses of the session, by code and text
Resp(code, text) == [code |-> code, text |-> text]
NoResp == Resp(0, "")

StrFrom == <<"F","R","O","M",":">>
StrTo   == <<"T","O",":">>

\* SmtpSession::new
NewSession == [from |-> None, to |-> <<>>, data |-> None, expecting_data |-> FALSE]

\* faulty variant: reset leaves the recipient list as it is
ResetKeepsTo(s) == [s EXCEPT !.from = None, !.data = None,
                             !.expecting_data = FALSE]

\* SmtpSession::reset
Reset(s) == [s EXCEPT !.from = None, !.to = <<>>, !.data = None,
                      !.expecting_data = FALSE]

\* the address of a MAIL or RCPT argument: the text after the prefix of
\* length n, trimmed, leading '<' and trailing '>' removed
Address(arg, n) ==
    TrimEndMatches(TrimStartMatches(Trim(SliceFrom(arg, n)), "<"), ">")

\* handle_command, "EHLO" | "HELO"
CmdHello(s) == [sess |-> Reset(s), resp |-> Resp(250, "Hello")]

\* faulty variant: MAIL keeps the angle brackets around the address
CmdMailKeepsBrackets(s, parts) ==
    IF Len(parts) < 2 \/ ~StartsWith(ToUpper(parts[2]), StrFrom)
    THEN [sess |-> s, resp |-> Resp(500, "Syntax error")]
    ELSE [sess |-> [s EXCEPT !.from = Some(Trim(SliceFrom(parts[2], 5)))],
          resp |-> Resp(250, "OK")]

\* faulty variant: an accepted MAIL starts a new envelope, the recipients
\* accepted before it are dropped
CmdMailClearsTo(s, parts) ==
    IF Len(parts) < 2 \/ ~StartsWith(ToUpper(parts[2]), StrFrom)
    THEN [sess |-> s, resp |-> Resp(500, "Syntax error")]
    ELSE [sess |-> [s EXCEPT !.from = Some(Address(parts[2], 5)),
                             !.to = <<>>],
          resp |-> Resp(250, "OK")]

\* handle_command, "MAIL"
CmdMail(s, parts) ==
    IF Len(parts) < 2 \/ ~StartsWith(ToUpper(parts[2]), StrFrom)
    THEN [sess |-> s, resp |-> Resp(500, "Syntax error")]
    ELSE [sess |-> [s EXCEPT !.from = Some(Address(parts[2], 5))],
          resp |-> Resp(250, "OK")]

\* faulty variant: RCPT checks its syntax before it checks the sender
CmdRcptSyntaxFirst(s, parts) ==
    IF Len(parts) < 2 \/ ~StartsWith(ToUpper(parts[2]), StrTo)
    THEN [sess |-> s, resp |-> Resp(500, "Syntax error")]
    ELSE IF s.from = None
    THEN [sess |-> s, resp |-> Resp(503, "Need MAIL command first")]
    ELSE [sess |-> [s EXCEPT !.to = Append(@, Address(parts[2], 3))],
          resp |-> Resp(250, "OK")]

\* faulty variant: RCPT does not add an address the list already holds
CmdRcptDedup(s, parts) ==
    IF s.from = None
    THEN [sess |-> s, resp |-> Resp(503, "Need MAIL command first")]
    ELSE IF Len(parts) < 2 \/ ~StartsWith(ToUpper(parts[2]), StrTo)
    THEN [sess |-> s, resp |-> Resp(500, "Syntax error")]
    ELSE [sess |-> [s EXCEPT !.to =
                       IF \E i \in 1..Len(@) : @[i] = Address(parts[2], 3)
                       THEN @ ELSE Append(@, Address(parts[2], 3))],
          resp |-> Resp(250, "OK")]

\* faulty variant: RCPT does not ask for a sender
CmdRcptNoSender(s, parts) ==
    IF Len(parts) < 2 \/ ~StartsWith(ToUpper(parts[2]), StrTo)
    THEN [sess |-> s, resp |-> Resp(500, "Syntax error")]
    ELSE [sess |-> [s EXCEPT !.to = Append(@, Address(parts[2], 3))],
          resp |-> Resp(250, "OK")]

\* handle_command, "RCPT"
CmdRcpt(s, parts) ==
    IF s.from = None
    THEN [sess |-> s, resp |-> Resp(503, "Need MAIL command first")]
    ELSE IF Len(parts) < 2 \/ ~StartsWith(ToUpper(parts[2]), StrTo)
    THEN [sess |-> s, resp |-> Resp(500, "Syntax error")]
    ELSE [sess |-> [s EXCEPT !.to = Append(@, Address(parts[2], 3))],
          resp |-> Resp(250, "OK")]

\* faulty variant: DATA is refused only when both the sender and the recipients
\* are missing
CmdDataBothMissing(s) ==
    IF s.from = None /\ s.to = <<>>
    THEN [sess |-> s, resp |-> Resp(503, "Need MAIL and RCPT commands first")]
    ELSE [sess |-> [s EXCEPT !.expecting_data = TRUE],
          resp |-> Resp(354, "End data with <CR><LF>.<CR><LF>")]

\* handle_command, "DATA"
CmdData(s) ==
    IF s.from = None \/ s.to = <<>>
    THEN [sess |-> s, resp |-> Resp(503, "Need MAIL and RCPT commands first")]
    ELSE [sess |-> [s EXCEPT !.expecting_data = TRUE],
          resp |-> Resp(354, "End data with <CR><LF>.<CR><LF>")]

\* handle_command, "QUIT"
CmdQuit(s) == [sess |-> s, resp |-> Resp(221, "Bye")]

\* handle_command, "RSET"
CmdRset(s) == [sess |-> Reset(s), resp |-> Resp(250, "OK")]

\* handle_command, "NOOP"
CmdNoop(s) == [sess |-> s, resp |-> Resp(250, "OK")]

\* faulty variant: an unrecognized verb resets the session
CmdOtherResets(s) == [sess |-> Reset(s), resp |-> Resp(500, "Command not recognized")]

\* handle_command, any other verb
CmdOther(s) == [sess |-> s, resp |-> Resp(500, "Command not recognized")]

\* SmtpSession::handle_command on the trimmed line
HandleCommand(s, line) ==
    LET parts == SplitWhitespace(line) IN
    IF parts = <<>> THEN [sess |-> s, resp |-> Resp(500, "Syntax error")]
    ELSE LET command == ToUpper(parts[1]) IN
         CASE command \in {<<"E","H","L","O">>, <<"H","E","L","O">>} -> CmdHello(s)
           [] command = <<"M","A","I","L">> -> CmdMail(s, parts)
           [] command = <<"R","C","P","T">> -> CmdRcpt(s, parts)
           [] command = <<"D","A","T","A">> -> CmdData(s)
           [] command = <<"Q","U","I","T">> -> CmdQuit(s)
           [] command = <<"R","S","E","T">> -> CmdRset(s)
           [] command = <<"N","O","O","P">> -> CmdNoop(s)
           [] OTHER -> CmdOther(s)

StrSubjectLower == <<"s","u","b","j","e","c","t",":">>
StrSubject      == <<"S","u","b","j","e","c","t",":">>
StrNoSubject    == <<"N","o"," ","S","u","b","j","e","c","t">>

\* extract_subject
ExtractSubject(data) ==
    LET ls == Lines(data)
        hits == { i \in 1..Len(ls) : StartsWith(ToLower(ls[i]), StrSubjectLower) }
    IN  IF hits = {} THEN StrNoSubject
        ELSE LET i == CHOOSE k \in hits : \A j \in hits : k <= j
             IN  Trim(TrimStartMatchesStr(ls[i], StrSubject))

\* handle_data up to the strategy loop: stores the data, leaves data mode
\* and builds the EmailData (None when from is unset)
HandleDataBegin(s, data) ==
    LET s1 == [s EXCEPT !.data = Some(data), !.expecting_data = FALSE] IN
    [sess  |-> s1,
     email |-> IF s1.from # None
               THEN Some([from     |-> s1.from[1],
                          to       |-> s1.to,
                          subject  |-> ExtractSubject(data),
                          body     |-> data,
                          raw_data |-> data])
               ELSE None]

\* handle_data after the strategy loop: reset and the response
HandleDataEnd(s) == [sess |-> Reset(s), resp |-> Resp(250, "OK")]

\* faulty variant: the loop tests for another code than 221
Is221Typo(resp) == resp.code = 211

\* response.starts_with("221")
Is221(resp) == resp.code = 221

\* the data-phase terminator test of handle_connection: line.trim() == "."
IsTerminator(line) == Trim(line) = <<".">>

\* faulty variant: every leading dot is removed, not only the first of two
StoredLineAnyDot(line) ==
    IF StartsWith(line, <<".">>) THEN SliceFrom(line, 1) ELSE line

\* the line as handle_connection pushes it onto data_lines
StoredLine(line) ==
    IF StartsWith(line, <<".", ".">>) THEN SliceFrom(line, 1) ELSE line


(* ---------------------------- connections ------------------------------ *)
\* the connection handlers main may have spawned
Conns == {1, 2}

VARIABLES
    strategies,   \* the Arc<Vec<ApiStrategy>> built by main, shared by all
    pc,           \* where each handle_connection is: "idle" (not accepted),
                  \* "greet", "read", "dispatch", "write", "closed"
    session,      \* each connection's SmtpSession
    data_lines,   \* handle_connection's data_lines of the current data phase
    email,        \* handle_data's email_data while the strategies run
    si,           \* handle_data's position in the strategy list
    resp,         \* the response about to be written
    wrote,        \* history: the code of the last response written
    sent,         \* history: the send_email calls of the data phase being
                  \* completed, in order
    last,         \* history: the line just read and the session before it
    rawlines,     \* history: the lines read in the current data phase
    handed,       \* history: the raw message given to handle_data
    accepted,     \* history: the MAIL and RCPT lines answered 250 since the
                  \* last EHLO, HELO, RSET or completed data phase
    exit,         \* history: how handle_connection returned
    client,       \* the peer of each connection: free to send any line, or
                  \* bound to a script
    log,          \* history: the codes written to a scripted client, in
                  \* order
    owed,         \* history: command lines read plus data phases completed,
                  \* minus the responses written after the greeting
    call          \* the function applied to an input, and its result

vars == <<strategies, pc, session, data_lines, email, si, resp, wrote, sent,
          last, rawlines, handed, accepted, exit, client, log, owed, call>>

\* a peer that may send any line of the mode's alphabet
FreeClient == [free |-> TRUE, script |-> <<>>, next |-> 1]
\* a peer that sends the lines of script, in order: next is the position of
\* the line it sends next
Scripted(script) == [free |-> FALSE, script |-> script, next |-> 1]
\* no function was applied
NoCall == [fn |-> "none"]

NoneAccepted == [mail |-> None, rcpt |-> <<>>]
NoEvent == [kind |-> "none", line |-> <<>>, pre |-> NewSession,
            acc |-> NoneAccepted, w |-> 0]

\* the first whitespace-delimited token of a line, in upper case
Verb(line) ==
    LET parts == SplitWhitespace(line) IN
    IF parts = <<>> THEN <<>> ELSE ToUpper(parts[1])

VerbEhlo == <<"E","H","L","O">>
VerbHelo == <<"H","E","L","O">>
VerbMail == <<"M","A","I","L">>
VerbRcpt == <<"R","C","P","T">>
VerbData == <<"D","A","T","A">>
VerbQuit == <<"Q","U","I","T">>
VerbRset == <<"R","S","E","T">>
VerbNoop == <<"N","O","O","P">>

\* the accepted lines after a command line was answered with the code
Track(a, line, code) ==
    LET v == Verb(line) IN
    IF v \in {VerbEhlo, VerbHelo, VerbRset} THEN NoneAccepted
    ELSE IF v = VerbMail /\ code = 250 THEN [a EXCEPT !.mail = Some(line)]
    ELSE IF v = VerbRcpt /\ code = 250 THEN [a EXCEPT !.rcpt = Append(@, line)]
    ELSE a

\* the connections in conns were accepted by main, their handlers are
\* about to send the greeting
InitWith(conns) ==
    /\ strategies \in StrategyLists
    /\ pc = [c \in Conns |-> IF c \in conns THEN "greet" ELSE "idle"]
    /\ session = [c \in Conns |-> NewSession]
    /\ data_lines = [c \in Conns |-> <<>>]
    /\ email = [c \in Conns |-> None]
    /\ si = [c \in Conns |-> 0]
    /\ resp = [c \in Conns |-> NoResp]
    /\ wrote = [c \in Conns |-> 0]
    /\ sent = [c \in Conns |-> <<>>]
    /\ last = [c \in Conns |-> NoEvent]
    /\ rawlines = [c \in Conns |-> <<>>]
    /\ handed = [c \in Conns |-> None]
    /\ accepted = [c \in Conns |-> NoneAccepted]
    /\ exit = [c \in Conns |-> "open"]
    /\ log = [c \in Conns |-> <<>>]
    /\ owed = [c \in Conns |-> 0]
    /\ call = NoCall

Init ==
    /\ InitWith({1})
    /\ client = [c \in Conns |-> FreeClient]

\* the peer of c can send line now: any line of the mode's alphabet when it
\* is free, the next line of its script otherwise
Offered(c, line, alphabet) ==
    IF client[c].free THEN line \in alphabet
    ELSE /\ client[c].next <= Len(client[c].script)
         /\ line = client[c].script[client[c].next]

\* the peer of c has sent a line
Consumed(c) ==
    [client EXCEPT ![c] = IF @.free THEN @ ELSE [@ EXCEPT !.next = @ + 1]]

\* code is written to c
Logged(c, code) ==
    [log EXCEPT ![c] = IF client[c].free THEN @ ELSE Append(@, code)]

\* handle_connection returns: the connection is closed for the reason given
Close(c, reason) ==
    /\ pc' = [pc EXCEPT ![c] = "closed"]
    /\ exit' = [exit EXCEPT ![c] = reason]

\* faulty variant: the handlers share one session, created anew by each of them
GreetSharedSession(c) ==
    /\ pc[c] = "greet"
    /\ wrote' = [wrote EXCEPT ![c] = 220]
    /\ session' = [d \in Conns |-> NewSession]
    /\ pc' = [pc EXCEPT ![c] = "read"]
    /\ log' = Logged(c, 220)
    /\ UNCHANGED <<strategies, call, data_lines, email, si, resp, sent, last,
                   rawlines, handed, accepted, exit, client, owed>>

\* the greeting is written and flushed, the session is created
Greet(c) ==
    /\ pc[c] = "greet"
    /\ wrote' = [wrote EXCEPT ![c] = 220]
    /\ session' = [session EXCEPT ![c] = NewSession]
    /\ pc' = [pc EXCEPT ![c] = "read"]
    /\ log' = Logged(c, 220)
    /\ UNCHANGED <<strategies, call, data_lines, email, si, resp, sent, last,
                   rawlines, handed, accepted, exit, client, owed>>

\* a line is read in command mode and handle_command answers it
ReadCommand(c, line) ==
    /\ pc[c] = "read"
    /\ ~session[c].expecting_data
    /\ Offered(c, line, CmdLines)
    /\ LET r == HandleCommand(session[c], Trim(line)) IN
       /\ Len(r.sess.to) <= MaxRcpts
       /\ session' = [session EXCEPT ![c] = r.sess]
       /\ resp' = [resp EXCEPT ![c] = r.resp]
       /\ accepted' = [accepted EXCEPT ![c] = Track(@, line, r.resp.code)]
    /\ last' = [last EXCEPT ![c] = [kind |-> "cmd", line |-> line,
                                    pre |-> session[c], acc |-> accepted[c],
                                    w |-> wrote[c]]]
    /\ pc' = [pc EXCEPT ![c] = "write"]
    /\ client' = Consumed(c)
    /\ owed' = [owed EXCEPT ![c] = @ + 1]
    /\ UNCHANGED <<strategies, call, data_lines, email, si, wrote, sent,
                   rawlines, handed, exit, log>>

\* handle_data returns: the session is reset and 250 is the response
FinishData(c, s) ==
    LET r == HandleDataEnd(s) IN
    /\ session' = [session EXCEPT ![c] = r.sess]
    /\ resp' = [resp EXCEPT ![c] = r.resp]
    /\ email' = [email EXCEPT ![c] = None]
    /\ si' = [si EXCEPT ![c] = 0]
    /\ accepted' = [accepted EXCEPT ![c] = NoneAccepted]
    /\ pc' = [pc EXCEPT ![c] = "write"]

\* faulty variant: each line stored in data mode is answered with a 250
ReadDataLineAnswers(c, line) ==
    /\ pc[c] = "read"
    /\ session[c].expecting_data
    /\ ~IsTerminator(line)
    /\ Offered(c, line, DataLines)
    /\ client[c].free => Len(rawlines[c]) < MaxDataLines
    /\ data_lines' = [data_lines EXCEPT ![c] = Append(@, StoredLine(line))]
    /\ rawlines' = [rawlines EXCEPT ![c] = Append(@, line)]
    /\ resp' = [resp EXCEPT ![c] = Resp(250, "OK")]
    /\ pc' = [pc EXCEPT ![c] = "write"]
    /\ client' = Consumed(c)
    /\ UNCHANGED <<strategies, call, session, email, si, wrote, sent,
                   last, handed, accepted, exit, log, owed>>

\* a line is read in data mode and is not the terminator: it is stored
ReadDataLine(c, line) ==
    /\ pc[c] = "read"
    /\ session[c].expecting_data
    /\ ~IsTerminator(line)
    /\ Offered(c, line, DataLines)
    /\ client[c].free => Len(rawlines[c]) < MaxDataLines
    /\ data_lines' = [data_lines EXCEPT ![c] = Append(@, StoredLine(line))]
    /\ rawlines' = [rawlines EXCEPT ![c] = Append(@, line)]
    /\ client' = Consumed(c)
    /\ UNCHANGED <<strategies, call, pc, session, email, si, resp, wrote, sent,
                   last, handed, accepted, exit, log, owed>>

\* the data phase is complete: the lines are joined and handle_data runs up
\* to its first send_email (or to its end when there is none)
DataComplete(c, line, kind) ==
    /\ LET data == Join(data_lines[c])
           b == HandleDataBegin(session[c], data)
       IN  /\ handed' = [handed EXCEPT ![c] = Some(data)]
           /\ IF b.email = None \/ strategies = <<>>
              THEN FinishData(c, b.sess)
              ELSE /\ session' = [session EXCEPT ![c] = b.sess]
                   /\ email' = [email EXCEPT ![c] = b.email]
                   /\ si' = [si EXCEPT ![c] = 1]
                   /\ pc' = [pc EXCEPT ![c] = "dispatch"]
                   /\ UNCHANGED <<resp, accepted>>
    /\ last' = [last EXCEPT ![c] = [kind |-> kind, line |-> line,
                                    pre |-> session[c], acc |-> accepted[c],
                                    w |-> wrote[c]]]
    /\ data_lines' = [data_lines EXCEPT ![c] = <<>>]
    /\ owed' = [owed EXCEPT ![c] = @ + 1]
    /\ UNCHANGED <<strategies, call, sent, rawlines, log>>

\* faulty variant: the 250 is written as soon as the terminator is read, before the
\* strategies run
ReadTerminatorEarlyAck(c, line) ==
    /\ pc[c] = "read"
    /\ session[c].expecting_data
    /\ IsTerminator(line)
    /\ Offered(c, line, DataLines)
    /\ DataComplete(c, line, "term")
    /\ client' = Consumed(c)
    /\ wrote' = [wrote EXCEPT ![c] = 250]
    /\ UNCHANGED exit

\* the terminator is read in data mode
ReadTerminator(c, line) ==
    /\ pc[c] = "read"
    /\ session[c].expecting_data
    /\ IsTerminator(line)
    /\ Offered(c, line, DataLines)
    /\ DataComplete(c, line, "term")
    /\ client' = Consumed(c)
    /\ UNCHANGED <<wrote, exit>>

\* faulty variant: a failed send_email ends handle_data at once with an error
\* response, the session left as it is
SendEmailAbortOnErr(c, ok) ==
    /\ pc[c] = "dispatch"
    /\ sent' = [sent EXCEPT ![c] =
                   Append(@, [sink |-> si[c], kind |-> strategies[si[c]],
                              rec |-> email[c][1], ok |-> ok])]
    /\ IF ~ok
       THEN /\ resp' = [resp EXCEPT ![c] = Resp(554, "Transaction failed")]
            /\ email' = [email EXCEPT ![c] = None]
            /\ si' = [si EXCEPT ![c] = 0]
            /\ pc' = [pc EXCEPT ![c] = "write"]
            /\ UNCHANGED <<session, accepted>>
       ELSE IF si[c] < Len(strategies)
       THEN /\ si' = [si EXCEPT ![c] = @ + 1]
            /\ UNCHANGED <<pc, session, email, resp, accepted>>
       ELSE FinishData(c, session[c])
    /\ UNCHANGED <<strategies, call, data_lines, wrote, last, rawlines, handed,
                   exit, client, log, owed>>

\* faulty variant: a failed send_email is propagated out of handle_data and ends
\* handle_connection
SendEmailPropagatesErr(c, ok) ==
    /\ pc[c] = "dispatch"
    /\ sent' = [sent EXCEPT ![c] =
                   Append(@, [sink |-> si[c], kind |-> strategies[si[c]],
                              rec |-> email[c][1], ok |-> ok])]
    /\ IF ~ok
       THEN /\ Close(c, "error")
            /\ UNCHANGED <<session, email, si, resp, accepted>>
       ELSE IF si[c] < Len(strategies)
       THEN /\ si' = [si EXCEPT ![c] = @ + 1]
            /\ UNCHANGED <<pc, session, email, resp, accepted, exit>>
       ELSE FinishData(c, session[c]) /\ UNCHANGED exit
    /\ UNCHANGED <<strategies, call, data_lines, wrote, last, rawlines, handed,
                   client, log, owed>>

\* faulty variant: the strategy loop stops at the first failed send_email
SendEmailStopOnErr(c, ok) ==
    /\ pc[c] = "dispatch"
    /\ sent' = [sent EXCEPT ![c] =
                   Append(@, [sink |-> si[c], kind |-> strategies[si[c]],
                              rec |-> email[c][1], ok |-> ok])]
    /\ IF ok /\ si[c] < Len(strategies)
       THEN /\ si' = [si EXCEPT ![c] = @ + 1]
            /\ UNCHANGED <<pc, session, email, resp, accepted>>
       ELSE FinishData(c, session[c])
    /\ UNCHANGED <<strategies, call, data_lines, wrote, last, rawlines, handed,
                   exit, client, log, owed>>

\* the next strategy's send_email is awaited and returns Ok or Err; after
\* the last one handle_data resets the session and returns
SendEmail(c, ok) ==
    /\ pc[c] = "dispatch"
    /\ sent' = [sent EXCEPT ![c] =
                   Append(@, [sink |-> si[c], kind |-> strategies[si[c]],
                              rec |-> email[c][1], ok |-> ok])]
    /\ IF si[c] < Len(strategies)
       THEN /\ si' = [si EXCEPT ![c] = @ + 1]
            /\ UNCHANGED <<pc, session, email, resp, accepted>>
       ELSE FinishData(c, session[c])
    /\ UNCHANGED <<strategies, call, data_lines, wrote, last, rawlines, handed,
                   exit, client, log, owed>>

\* the response is written and flushed; a 221 ends the connection
WriteResponse(c) ==
    /\ pc[c] = "write"
    /\ wrote' = [wrote EXCEPT ![c] = resp[c].code]
    /\ IF Is221(resp[c])
       THEN /\ Close(c, "quit")
            /\ UNCHANGED last
       ELSE /\ pc' = [pc EXCEPT ![c] = "read"]
            /\ last' = [last EXCEPT ![c] = NoEvent]
            /\ UNCHANGED exit
    /\ resp' = [resp EXCEPT ![c] = NoResp]
    /\ sent' = [sent EXCEPT ![c] = <<>>]
    /\ rawlines' = [rawlines EXCEPT ![c] = <<>>]
    /\ handed' = [handed EXCEPT ![c] = None]
    /\ log' = Logged(c, resp[c].code)
    /\ owed' = [owed EXCEPT ![c] = @ - 1]
    /\ UNCHANGED <<strategies, call, session, data_lines, email, si, accepted,
                   client>>

\* faulty variant: the end of the stream in data mode ends the data phase like a
\* terminator line
StreamEndBreaks(c, reason) ==
    /\ pc[c] = "read"
    /\ IF session[c].expecting_data
       THEN /\ DataComplete(c, <<>>, "end")
            /\ UNCHANGED <<wrote, exit, client>>
       ELSE /\ last' = [last EXCEPT ![c] = [kind |-> "end", line |-> <<>>,
                                           pre |-> session[c],
                                           acc |-> accepted[c],
                                           w |-> wrote[c]]]
            /\ Close(c, reason)
            /\ UNCHANGED <<strategies, call, session, data_lines, email, si,
                           resp, wrote, sent, rawlines, handed, accepted,
                           client, log, owed>>

\* read_line returns 0 bytes (the stream ended) or an error, in either
\* mode: handle_connection returns at once
StreamEnd(c, reason) ==
    /\ pc[c] = "read"
    /\ last' = [last EXCEPT ![c] = [kind |-> "end", line |-> <<>>,
                                    pre |-> session[c], acc |-> accepted[c],
                                    w |-> wrote[c]]]
    /\ Close(c, reason)
    /\ UNCHANGED <<strategies, call, session, data_lines, email, si, resp,
                   wrote, sent, rawlines, handed, accepted, client, log, owed>>

\* write_all or flush fails: handle_connection returns the error
WriteFail(c) ==
    /\ pc[c] \in {"greet", "write"}
    /\ Close(c, "ioerr")
    /\ UNCHANGED <<strategies, call, session, data_lines, email, si, resp,
                   wrote, sent, last, rawlines, handed, accepted, client, log,
                   owed>>

Next ==
    \E c \in Conns :
        \/ Greet(c)
        \/ \E line \in AllLines : ReadCommand(c, line)
        \/ \E line \in AllLines : ReadDataLine(c, line)
        \/ \E line \in AllLines : ReadTerminator(c, line)
        \/ \E ok \in BOOLEAN : SendEmail(c, ok)
        \/ WriteResponse(c)
        \/ \E reason \in {"eof", "ioerr"} : StreamEnd(c, reason)
        \/ WriteFail(c)

Spec == Init /\ [][Next]_vars

(* ------------------------------- claims -------------------------------- *)
\* the connections main has accepted
Accepted == { c \in Conns : pc[c] # "idle" }

\* a command line has just been handled on c and its response is pending
AfterCommand(c) == pc[c] = "write" /\ last[c].kind = "cmd"

\* a data phase has just been completed on c and its response is pending
AfterData(c) == pc[c] = "write" /\ last[c].kind = "term"

KnownVerbs == {VerbEhlo, VerbHelo, VerbMail, VerbRcpt, VerbData, VerbRset,
               VerbNoop, VerbQuit}

\* C1: a RCPT line read while no MAIL was accepted since the connection
\* started or was last reset is answered 503, well-formed or not; a DATA line
\* read while no MAIL or no RCPT was accepted since then is answered 503; a
\* line whose first token is none of the eight verbs is answered 500.
C1_SequenceAndVerbErrors ==
    \A c \in Accepted :
        AfterCommand(c) =>
            LET v == Verb(last[c].line)
                a == last[c].acc
            IN  /\ (v = VerbRcpt /\ a.mail = None) => resp[c].code = 503
                /\ (v = VerbData /\ (a.mail = None \/ a.rcpt = <<>>))
                       => resp[c].code = 503
                /\ v \notin KnownVerbs => resp[c].code = 500

\* C1 witness: a malformed RCPT read with no sender set, answered 503 and
\* not 500
C1_Witness ==
    \E c \in Accepted :
        /\ AfterCommand(c)
        /\ last[c].line = LineRcptBad
        /\ last[c].acc.mail = None
        /\ resp[c].code = 503

\* C2: the session expects data only if the sender is set and the recipient
\* list is not empty; DATA is answered 354 and enters data mode exactly when
\* both hold when it is read, and is answered 503 and stays in command mode
\* otherwise.
C2_DataModeNeedsEnvelope ==
    \A c \in Accepted :
        /\ session[c].expecting_data
               => session[c].from # None /\ session[c].to # <<>>
        /\ (AfterCommand(c) /\ Verb(last[c].line) = VerbData) =>
               IF last[c].pre.from # None /\ last[c].pre.to # <<>>
               THEN resp[c].code = 354 /\ session[c].expecting_data
               ELSE resp[c].code = 503 /\ ~session[c].expecting_data

\* C2 witness: DATA read with a sender and no recipient, refused
C2_Witness ==
    \E c \in Accepted :
        /\ AfterCommand(c)
        /\ Verb(last[c].line) = VerbData
        /\ last[c].pre.from # None
        /\ last[c].pre.to = <<>>
        /\ resp[c].code = 503

\* C3: when a data phase completes the response is 250 and the envelope and
\* the mode are reset, whatever the strategies returned.
C3_DataAlwaysAccepted ==
    \A c \in Accepted :
        AfterData(c) =>
            /\ resp[c].code = 250
            /\ session[c].from = None
            /\ session[c].to = <<>>
            /\ ~session[c].expecting_data

\* C3 witness: a data phase completed with the first strategy failed and the
\* second succeeded
C3_Witness ==
    \E c \in Accepted :
        /\ AfterData(c)
        /\ Len(sent[c]) = 2
        /\ ~sent[c][1].ok
        /\ sent[c][2].ok
        /\ resp[c].code = 250

\* the data phase of c is being completed: its strategies run or its
\* response is pending
Completing(c) == pc[c] = "dispatch" \/ AfterData(c)

\* C4: for each completed data phase every configured strategy is called
\* exactly once with that message's record, one at a time and in list order;
\* a failed call does not keep a later strategy from being called and none
\* is called twice.
C4_EachSinkOnceInOrder ==
    \A c \in Accepted :
        /\ Completing(c) =>
               \A i \in 1..Len(sent[c]) :
                   /\ sent[c][i].sink = i
                   /\ sent[c][i].kind = strategies[i]
                   /\ sent[c][i].rec.raw_data = handed[c][1]
                   /\ sent[c][i].rec = sent[c][1].rec
        /\ pc[c] = "dispatch" => Len(sent[c]) = si[c] - 1
        /\ AfterData(c) => Len(sent[c]) = Len(strategies)

\* C4 witness: a completed data phase whose first strategy failed, with both
\* strategies called
C4_Witness ==
    \E c \in Accepted :
        /\ AfterData(c)
        /\ Len(strategies) = 2
        /\ Len(sent[c]) = 2
        /\ ~sent[c][1].ok
        /\ sent[c][2].sink = 2

\* C5: the 250 of a completed data phase is written only after every
\* configured strategy was attempted: while one is pending or not started,
\* the last response written is still the 354 and no response is pending.
C5_AckAfterAllSinks ==
    \A c \in Accepted :
        /\ pc[c] = "dispatch" =>
               /\ wrote[c] = 354
               /\ resp[c] = NoResp
               /\ si[c] \in 1..Len(strategies)
        /\ AfterData(c) =>
               /\ wrote[c] = 354
               /\ si[c] = 0
               /\ email[c] = None
               /\ \A i \in 1..Len(strategies) :
                      \E j \in 1..Len(sent[c]) : sent[c][j].sink = i

\* C5 witness: the second strategy is pending, the first has returned and
\* no 250 has been written
C5_Witness ==
    \E c \in Accepted :
        /\ pc[c] = "dispatch"
        /\ si[c] = 2
        /\ Len(sent[c]) = 1
        /\ wrote[c] = 354

\* the address a MAIL or RCPT line of the model's inputs names
LineAddress(line) ==
    CASE line = LineMailA -> AddrA
      [] line = LineMailLower -> AddrC
      [] line = LineRcptB -> AddrB
      [] line = LineRcptLower -> AddrC

\* C6: right after EHLO, HELO or RSET and right after a completed data phase
\* the sender is unset, the recipient list is empty and the mode is command
\* mode; a DATA read next, with no MAIL and RCPT accepted since, is answered
\* 503; the record of a message names only the sender and the recipients
\* accepted since the last of these resets.
C6_ResetClearsEnvelope ==
    \A c \in Accepted :
        /\ (\/ AfterData(c)
            \/ /\ AfterCommand(c)
               /\ Verb(last[c].line) \in {VerbEhlo, VerbHelo, VerbRset})
           => /\ session[c].from = None
              /\ session[c].to = <<>>
              /\ ~session[c].expecting_data
              /\ accepted[c] = NoneAccepted
        /\ (pc[c] = "read" /\ accepted[c] = NoneAccepted)
           => /\ session[c].from = None
              /\ session[c].to = <<>>
              /\ ~session[c].expecting_data
        /\ (AfterCommand(c) /\ Verb(last[c].line) = VerbData
                /\ last[c].acc = NoneAccepted)
           => resp[c].code = 503
        /\ Completing(c) =>
               \A i \in 1..Len(sent[c]) :
                   /\ sent[c][i].rec.from = LineAddress(last[c].acc.mail[1])
                   /\ sent[c][i].rec.to =
                          [k \in 1..Len(last[c].acc.rcpt) |->
                               LineAddress(last[c].acc.rcpt[k])]

\* C6 witness: a RSET read with sender and recipient set has cleared both
C6_Witness ==
    \E c \in Accepted :
        /\ AfterCommand(c)
        /\ Verb(last[c].line) = VerbRset
        /\ last[c].pre.from # None
        /\ last[c].pre.to # <<>>
        /\ session[c].from = None
        /\ session[c].to = <<>>

\* the line without its line terminator
Chomp(line) ==
    LET n == Len(line) IN
    IF n >= 2 /\ line[n - 1] = "\r" /\ line[n] = "\n" THEN SubSeq(line, 1, n - 2)
    ELSE IF n >= 1 /\ line[n] = "\n" THEN SubSeq(line, 1, n - 1)
    ELSE line

\* C7: the data phase ends at the first line that is a single "." followed
\* only by its line terminator; that line is not stored, and no other line
\* ends the phase or is left out of the stored body.
C7_OnlyLoneDotTerminates ==
    \A c \in Accepted :
        /\ last[c].kind = "term" => Chomp(last[c].line) = <<".">>
        /\ \A i \in 1..Len(rawlines[c]) : Chomp(rawlines[c][i]) # <<".">>
        /\ session[c].expecting_data => Len(data_lines[c]) = Len(rawlines[c])

\* the line of a data phase as the body is to hold it
Unstuffed(line) ==
    IF Len(line) >= 2 /\ line[1] = "." /\ line[2] = "." THEN Tail(line) ELSE line

RECURSIVE Body(_)
Body(ls) == IF ls = <<>> THEN <<>> ELSE Unstuffed(Head(ls)) \o Body(Tail(ls))

\* C8: the raw message given to the session is the concatenation, in arrival
\* order, of the lines read in data mode before the terminator, a line
\* beginning with two dots less its first dot and every other line as it
\* came; in data mode no line is answered or handled as a command.
C8_BodyIsUnstuffedLines ==
    \A c \in Accepted :
        /\ Completing(c) => handed[c] = Some(Body(rawlines[c]))
        /\ (pc[c] = "read" /\ session[c].expecting_data) =>
               /\ Join(data_lines[c]) = Body(rawlines[c])
               /\ wrote[c] = 354
               /\ resp[c] = NoResp
               /\ last[c] = NoEvent

\* C8 witness: a dot-stuffed line and a QUIT line, in this order, are the
\* body given to the session
C8_Witness ==
    \E c \in Accepted :
        /\ Completing(c)
        /\ rawlines[c] = <<LineDotDotX, LineQuit>>
        /\ handed[c] = Some(<<".","x","\r","\n","Q","U","I","T","\r","\n">>)

\* C9: when the stream ends the connection is closed at once and nothing is
\* written any more; in data mode no message is given to the session, no
\* record is built, no strategy is called and the 354 stays the last
\* response written.
C9_StreamEndAborts ==
    \A c \in Accepted :
        last[c].kind = "end" =>
            /\ pc[c] = "closed"
            /\ exit[c] \in {"eof", "ioerr"}
            /\ wrote[c] = last[c].w
            /\ resp[c] = NoResp
            /\ last[c].pre.expecting_data =>
                   /\ wrote[c] = 354
                   /\ handed[c] = None
                   /\ email[c] = None
                   /\ sent[c] = <<>>
                   /\ session[c] = last[c].pre

\* C9 witness: the stream has ended in data mode after a body line
C9_Witness ==
    \E c \in Accepted :
        /\ last[c].kind = "end"
        /\ exit[c] = "eof"
        /\ last[c].pre.expecting_data
        /\ rawlines[c] # <<>>

\* the steps of one connection
ConnNext(c) ==
    \/ Greet(c)
    \/ \E line \in AllLines : ReadCommand(c, line)
    \/ \E line \in AllLines : ReadDataLine(c, line)
    \/ \E line \in AllLines : ReadTerminator(c, line)
    \/ \E ok \in BOOLEAN : SendEmail(c, ok)
    \/ WriteResponse(c)
    \/ \E reason \in {"eof", "ioerr"} : StreamEnd(c, reason)
    \/ WriteFail(c)

\* C10: a QUIT read in command mode is answered 221 in any envelope state
\* and the 221 closes the session; a closed session takes no further step:
\* it reads no line, writes no response and calls no strategy.
C10_QuitClosesForGood ==
    \A c \in Accepted :
        /\ (AfterCommand(c) /\ Verb(last[c].line) = VerbQuit)
               => resp[c].code = 221 /\ session[c] = last[c].pre
        /\ exit[c] = "quit" => pc[c] = "closed" /\ wrote[c] = 221
        /\ wrote[c] = 221 => pc[c] = "closed" /\ exit[c] = "quit"
        /\ (pc[c] = "closed") = (exit[c] # "open")
        /\ pc[c] = "closed" => ~ENABLED ConnNext(c)

\* C10 witness: the session was closed by a QUIT read with sender and
\* recipient set
C10_Witness ==
    \E c \in Accepted :
        /\ exit[c] = "quit"
        /\ pc[c] = "closed"
        /\ session[c].from # None
        /\ session[c].to # <<>>

(* ------------------------ functions on messages ------------------------- *)
connVars == <<strategies, pc, session, data_lines, email, si, resp, wrote,
              sent, last, rawlines, handed, accepted, exit, client, log, owed>>

\* no connection is accepted; a function of the relay is about to be applied
\* to an input
InitFn ==
    /\ InitWith({})
    /\ strategies = <<>>
    /\ client = [c \in Conns |-> FreeClient]

\* the concatenations of up to n of the lines
RECURSIVE Messages(_, _)
Messages(lines, n) ==
    IF n = 0 THEN {<<>>}
    ELSE LET r == Messages(lines, n - 1)
         IN  r \cup { l \o m : l \in lines, m \in r }

\* the lines of the messages whose subject is extracted: "Subject: Hi",
\* "SUBJECT: Yo", "subject:x", "Subject:Subject: a", " Subject: no" (not a
\* subject line), "Hello" and the empty line
SubjectLines ==
    { LineSubject, LineHello, LineEmpty,
      <<"S","U","B","J","E","C","T",":"," ","Y","o","\r","\n">>,
      <<"s","u","b","j","e","c","t",":","x","\n">>,
      <<"S","u","b","j","e","c","t",":","S","u","b","j","e","c","t",":"," ","a","\r","\n">>,
      <<" ","S","u","b","j","e","c","t",":"," ","n","o","\r","\n">> }

MaxMsgLines == 2

\* handle_data derives the subject of the message data
ExtractSubjectCall(data) ==
    /\ call.fn = "none"
    /\ call' = [fn |-> "extract_subject", arg |-> data,
                res |-> ExtractSubject(data)]
    /\ UNCHANGED connVars

\* the subject the message is to have: what follows the eight characters
\* "subject:", in any letter case, on the first line that starts with them
SubjectOf(data) ==
    LET ls == Lines(data)
        hits == { i \in 1..Len(ls) : StartsWith(ToLower(ls[i]), StrSubjectLower) }
    IN  IF hits = {} THEN StrNoSubject
        ELSE LET i == CHOOSE k \in hits : \A j \in hits : k <= j
             IN  Trim(SliceFrom(ls[i], Len(StrSubjectLower)))

\* C11: the subject derived from a raw message is the trimmed remainder,
\* after the prefix, of the first line that starts with "Subject:" in any
\* letter case, whatever the letter case of the prefix on that line; it is
\* "No Subject" when there is no such line.
C11_SubjectAnyCase ==
    call.fn = "extract_subject" => call.res = SubjectOf(call.arg)

(* -------------------------- claims, continued --------------------------- *)
\* the addresses the accepted RCPT lines name, in the order of the lines
RcptAddresses(a) == [k \in 1..Len(a.rcpt) |-> LineAddress(a.rcpt[k])]

\* the record names the sender and the recipients of the accepted lines a,
\* and carries the raw message as its body and as its raw data
RecordOf(rec, a, raw) ==
    /\ rec.from = LineAddress(a.mail[1])
    /\ rec.to = RcptAddresses(a)
    /\ rec.body = raw
    /\ rec.raw_data = raw

\* C12: the record given to the strategies has, as from, the address of the
\* most recent MAIL accepted since the last reset and, as to, the addresses of
\* all RCPT lines accepted since then, in order of acceptance and with
\* duplicates kept; a RCPT answered 500 or 503 adds no recipient; body and
\* raw_data are both the raw message.
C12_RecordIsEnvelope ==
    \A c \in Accepted :
        /\ session[c].to = RcptAddresses(accepted[c])
        /\ accepted[c].mail # None =>
               session[c].from = Some(LineAddress(accepted[c].mail[1]))
        /\ (AfterCommand(c) /\ Verb(last[c].line) = VerbRcpt
                /\ resp[c].code \in {500, 503})
               => session[c].to = last[c].pre.to
        /\ pc[c] = "dispatch" =>
               RecordOf(email[c][1], last[c].acc, handed[c][1])
        /\ Completing(c) =>
               \A i \in 1..Len(sent[c]) :
                   RecordOf(sent[c][i].rec, last[c].acc, handed[c][1])

\* C12 witness: a strategy was given a record that names the same recipient
\* twice, after two accepted RCPT lines for it
C12_Witness ==
    \E c \in Accepted :
        /\ Completing(c)
        /\ sent[c] # <<>>
        /\ last[c].acc.rcpt = <<LineRcptLower, LineRcptLower>>
        /\ sent[c][1].rec.to = <<AddrC, AddrC>>
        /\ sent[c][1].rec.body = handed[c][1]

(* --------------------------- scripted clients --------------------------- *)
\* connection 1 is accepted and its peer follows one of the scripts
InitScript ==
    /\ InitWith({1})
    /\ \E s \in Scripts :
           client = [c \in Conns |-> IF c = 1 THEN Scripted(s) ELSE FreeClient]

SpecScript == InitScript /\ [][Next]_vars

\* the codes of the end-to-end exchange, the greeting first
CodesE2E == <<220, 250, 250, 250, 354, 250>>

\* the responses due when the first n lines of the end-to-end script were
\* read and answered: the greeting, one for each of the four commands, none
\* for the three body lines, one for the terminator
DueE2E(n) == 1 + (IF n <= 4 THEN n ELSE 4) + (IF n = Len(ScriptE2E) THEN 1 ELSE 0)

StrHi == <<"H","i">>

\* C13: on a fresh connection the exchange EHLO, MAIL FROM:<a@x.com>,
\* RCPT TO:<b@y.com>, DATA, "Subject: Hi", an empty line, "Hello", "." is
\* answered, after the 220 greeting, with 250, 250, 250, 354, 250 in this
\* order, and every configured strategy is given exactly one record, with
\* from a@x.com, to [b@y.com], subject "Hi" and a body containing "Hello\r\n".
C13_EndToEnd ==
    \A c \in Accepted :
        (~client[c].free /\ client[c].script = ScriptE2E) =>
            /\ log[c] = SubSeq(CodesE2E, 1, Len(log[c]))
            /\ pc[c] = "read" => Len(log[c]) = DueE2E(client[c].next - 1)
            /\ Completing(c) =>
                   /\ client[c].next = Len(ScriptE2E) + 1
                   /\ \A i \in 1..Len(sent[c]) :
                          /\ sent[c][i].sink = i
                          /\ sent[c][i].rec.from = AddrA
                          /\ sent[c][i].rec.to = <<AddrB>>
                          /\ sent[c][i].rec.subject = StrHi
                          /\ Contains(sent[c][i].rec.body, LineHello)
                          /\ sent[c][i].rec.body =
                                 LineSubject \o LineEmpty \o LineHello
            /\ AfterData(c) => Len(sent[c]) = Len(strategies)

\* C13 witness: the whole exchange was read and answered with two strategies
\* configured, the 250 of the message written last
C13_Witness ==
    \E c \in Accepted :
        /\ ~client[c].free
        /\ client[c].script = ScriptE2E
        /\ client[c].next = Len(ScriptE2E) + 1
        /\ pc[c] = "read"
        /\ log[c] = CodesE2E
        /\ Len(strategies) = 2

\* C14: a command answered 500 or 503 (an unrecognized verb, an empty line,
\* a malformed MAIL or RCPT, a RCPT or DATA out of sequence) and every NOOP
\* leave the sender, the recipient list and the mode as they were, and the
\* session stays open: the response is not the closing 221 and only a QUIT
\* closes a session.
C14_RefusedCommandsChangeNothing ==
    \A c \in Accepted :
        /\ (AfterCommand(c) /\ (resp[c].code \in {500, 503}
                                   \/ Verb(last[c].line) = VerbNoop))
               => /\ session[c].from = last[c].pre.from
                  /\ session[c].to = last[c].pre.to
                  /\ session[c].expecting_data = last[c].pre.expecting_data
                  /\ accepted[c] = last[c].acc
                  /\ ~Is221(resp[c])
        /\ exit[c] = "quit" =>
               /\ Verb(last[c].line) = VerbQuit
               /\ wrote[c] = 221

\* C14 witness: an unrecognized verb read with sender and recipient set was
\* answered 500 and both are still set
C14_Witness ==
    \E c \in Accepted :
        /\ AfterCommand(c)
        /\ last[c].line = LineUnknown
        /\ resp[c].code = 500
        /\ last[c].pre.from # None
        /\ last[c].pre.to # <<>>
        /\ session[c] = last[c].pre

\* a line is read on c, in either mode
ReadsLine(c) ==
    \E line \in AllLines :
        ReadCommand(c, line) \/ ReadDataLine(c, line) \/ ReadTerminator(c, line)

\* C15: a connection is handled strictly in sequence: after the greeting one
\* response is written for each command line read and one for each completed
\* data phase, so at most one response is owed at any time and it is the
\* response to the line read last; a line is read only when nothing is owed;
\* the lines stored in data mode are not answered.
C15_OneResponsePerLineInOrder ==
    \A c \in Accepted :
        /\ pc[c] = "greet" => owed[c] = 0 /\ wrote[c] = 0
        /\ pc[c] = "read" => owed[c] = 0 /\ resp[c] = NoResp
        /\ pc[c] = "dispatch" =>
               owed[c] = 1 /\ resp[c] = NoResp /\ last[c].kind = "term"
        /\ pc[c] = "write" =>
               /\ owed[c] = 1
               /\ last[c].kind \in {"cmd", "term"}
               /\ last[c].kind = "cmd" =>
                      resp[c] = HandleCommand(last[c].pre, Trim(last[c].line)).resp
               /\ last[c].kind = "term" => resp[c].code = 250
        /\ pc[c] = "closed" => owed[c] = IF exit[c] = "ioerr" /\ resp[c] # NoResp
                                        THEN 1 ELSE 0
        /\ (pc[c] = "read" /\ session[c].expecting_data) => wrote[c] = 354
        /\ pc[c] # "read" => ~ENABLED ReadsLine(c)

\* C15 witness: two lines were stored in data mode and the terminator was
\* read; the one response owed is the 250 of the data phase, the 354 still
\* the last response written
C15_Witness ==
    \E c \in Accepted :
        /\ AfterData(c)
        /\ Len(rawlines[c]) = 2
        /\ owed[c] = 1
        /\ resp[c].code = 250
        /\ wrote[c] = 354

(* ------------------------ concurrent connections ------------------------ *)
\* both connections are accepted, the peer of each follows a script
InitConc ==
    /\ InitWith(Conns)
    /\ \E s1 \in Scripts, s2 \in Scripts :
           client = [c \in Conns |-> IF c = 1 THEN Scripted(s1) ELSE Scripted(s2)]

SpecConc == InitConc /\ [][Next]_vars

\* a connection that runs alone, after its greeting: its session, the codes
\* written to it and the lines stored in its data phase
AloneStart == [sess |-> NewSession, log |-> <<220>>, dl |-> <<>>]

\* the connection alone reads line and, unless it only stores it, answers it
AloneStep(st, line) ==
    IF st.sess.expecting_data
    THEN IF IsTerminator(line)
         THEN [sess |-> HandleDataEnd(HandleDataBegin(st.sess, Join(st.dl)).sess).sess,
               log |-> Append(st.log, 250), dl |-> <<>>]
         ELSE [st EXCEPT !.dl = Append(@, StoredLine(line))]
    ELSE LET r == HandleCommand(st.sess, Trim(line))
         IN  [sess |-> r.sess, log |-> Append(st.log, r.resp.code), dl |-> st.dl]

\* the connection alone after the first n lines of script
RECURSIVE Alone(_, _)
Alone(script, n) ==
    IF n = 0 THEN AloneStart ELSE AloneStep(Alone(script, n - 1), script[n])

\* everything the handler of c holds
ConnState(c) ==
    <<pc[c], session[c], data_lines[c], email[c], si[c], resp[c], wrote[c],
      sent[c], last[c], rawlines[c], handed[c], accepted[c], exit[c],
      client[c], log[c], owed[c]>>

\* c is where it would be had it run alone on the lines it has read: the
\* same codes written, the same session and stored lines, the same record
\* given to the strategies
AsAlone(c) ==
    LET n == client[c].next - 1
        a == Alone(client[c].script, n)
    IN  IF wrote[c] = 0 THEN log[c] = <<>> /\ n = 0
        ELSE /\ log[c] = SubSeq(a.log, 1, Len(a.log) - owed[c])
             /\ data_lines[c] = a.dl
             /\ pc[c] # "dispatch" => session[c] = a.sess
             /\ Completing(c) =>
                    LET b == Alone(client[c].script, n - 1)
                        h == HandleDataBegin(b.sess, Join(b.dl))
                    IN  /\ pc[c] = "dispatch" =>
                               session[c] = h.sess /\ email[c] = h.email
                        /\ \A i \in 1..Len(sent[c]) : sent[c][i].rec = h.email[1]

\* C16: in every interleaving of the steps of two connections, each step
\* changes what one handler holds and nothing of the other, no step changes
\* the strategy list, and each connection's session, mode, written codes and
\* dispatched records are those it would have had running alone on the same
\* lines.
C16_ConnectionsIndependent ==
    /\ [](\A c \in Conns : AsAlone(c))
    /\ [][ /\ strategies' = strategies
           /\ \E c \in Conns :
                  \A d \in Conns \ {c} : ConnState(d)' = ConnState(d) ]_vars

\* C16 witness: both connections are in the middle of their exchanges, one
\* storing its message and the other with its sender set, on different
\* scripts
C16_Witness ==
    /\ client[1].script = ScriptE2E
    /\ client[2].script = ScriptRetry
    /\ pc[1] = "read" /\ session[1].expecting_data /\ Len(data_lines[1]) = 2
    /\ pc[2] = "write" /\ session[2].from = Some(AddrC) /\ session[2].to = <<AddrC>>
    /\ log[1] = <<220, 250, 250, 250, 354>>

(* ------------------------------ progress -------------------------------- *)
\* handle_data goes on when an awaited send_email has returned, and a
\* response that can be written is written
Fairness ==
    \A c \in Conns :
        /\ WF_vars(\E ok \in BOOLEAN : SendEmail(c, ok))
        /\ WF_vars(WriteResponse(c))

\* the messages sent: up to MaxDataLines lines that do not end the data
\* phase, as a sequence of lines
MessageLines ==
    Messages({ <<l>> : l \in { d \in DataLines : ~IsTerminator(d) } },
             MaxDataLines)

\* connection 1 is accepted; its peer sends an envelope, DATA, one of the
\* messages and the terminator
InitLive ==
    /\ InitWith({1})
    /\ \E m \in MessageLines :
           client = [c \in Conns |->
                        IF c = 1
                        THEN Scripted(<<LineMailA, LineRcptB, LineData>> \o m
                                      \o <<LineDot>>)
                        ELSE FreeClient]

SpecLive == InitLive /\ [][Next]_vars /\ Fairness

\* C17: a data phase accepted with 354 whose terminator was read is
\* eventually answered 250, whatever the strategies return and whatever the
\* message holds, unless a write to the connection fails.
C17_TerminatedDataIsAcked ==
    \A c \in Conns :
        (last[c].kind = "term" /\ pc[c] \in {"dispatch", "write"})
            ~> (wrote[c] = 250 \/ exit[c] = "ioerr")

\* C17 witness: the terminator of a two-line message was read, both
\* strategies failed, and the response about to be written is the 250
C17_Witness ==
    \E c \in Accepted :
        /\ AfterData(c)
        /\ log[c] = <<220, 250, 250, 354>>
        /\ last[c].w = 354
        /\ Len(rawlines[c]) = 2
        /\ Len(sent[c]) = 2
        /\ \A i \in 1..2 : ~sent[c][i].ok
        /\ resp[c] = Resp(250, "OK")

(* --------------------------- quoted-printable --------------------------- *)
\* the characters of the quoted-printable inputs
QpChars == {"=", "C", "3", "x", "+", "\r", "\n"}

\* the printable ASCII characters, from the space (code point 32) on; the
\* grave accent (96) is no character of any input and is held by name
AsciiChars ==
   <<" ", "!", "\"", "#", "$", "%", "&", "'", "(", ")", "*", "+", ",", "-", ".", "/",
      "0", "1", "2", "3", "4", "5", "6", "7", "8", "9", ":", ";", "<", "=", ">", "?",
      "@", "A", "B", "C", "D", "E", "F", "G", "H", "I", "J", "K", "L", "M", "N", "O",
      "P", "Q", "R", "S", "T", "U", "V", "W", "X", "Y", "Z", "[", "\\", "]", "^", "_",
      "grave", "a", "b", "c", "d", "e", "f", "g", "h", "i", "j", "k", "l", "m", "n", "o",
      "p", "q", "r", "s", "t", "u", "v", "w", "x", "y", "z", "{", "|", "}", "~" >>

\* the code point of a character of the inputs
Ord(ch) ==
    IF ch = "\r" THEN 13
    ELSE IF ch = "\n" THEN 10
    ELSE 31 + (CHOOSE i \in 1..Len(AsciiChars) : AsciiChars[i] = ch)

Ords(s) == [i \in 1..Len(s) |-> Ord(s[i])]

MaxQpLen == 4

\* the inputs decoded: every string of up to MaxQpLen of the characters
QpInputs == Messages({ <<ch>> : ch \in QpChars }, MaxQpLen)

\* char::to_digit(16): the hex digits, in either letter case
IsHexDigit(ch) ==
    ch \notin {"\r", "\n"} /\ Ord(ch) \in (48..57) \cup (65..70) \cup (97..102)
HexDigit(ch) ==
    LET o == Ord(ch) IN
    IF o <= 57 THEN o - 48 ELSE IF o <= 70 THEN o - 55 ELSE o - 87

\* u8::from_str_radix(hex, 16) on two characters returns Ok: two digits, or
\* a plus sign and one digit
HexOk(hex) ==
    /\ Len(hex) = 2
    /\ IsHexDigit(hex[2])
    /\ IsHexDigit(hex[1]) \/ hex[1] = "+"

\* the byte u8::from_str_radix(hex, 16) returns
HexByte(hex) ==
    IF hex[1] = "+" THEN HexDigit(hex[2])
    ELSE 16 * HexDigit(hex[1]) + HexDigit(hex[2])

\* decode_quoted_printable: the characters pushed to result, as code points;
\* a decoded byte is pushed as the character with that code point
RECURSIVE DecodeQuotedPrintable(_)
DecodeQuotedPrintable(input) ==
    IF input = <<>> THEN <<>>
    ELSE IF Head(input) # "=" THEN <<Ord(Head(input))>> \o DecodeQuotedPrintable(Tail(input))
    ELSE LET r == Tail(input)
             cr == r # <<>> /\ r[1] = "\r"
             \* what chars holds when the hex digits are taken: a "\r" that
             \* was peeked is already consumed
             h == IF cr THEN Tail(r) ELSE r
             hex == SubSeq(h, 1, IF Len(h) < 2 THEN Len(h) ELSE 2)
             rest == SubSeq(h, Len(hex) + 1, Len(h))
         IN  IF cr /\ Len(r) >= 2 /\ r[2] = "\n"
             THEN DecodeQuotedPrintable(SubSeq(r, 3, Len(r)))
             ELSE IF ~cr /\ r # <<>> /\ r[1] = "\n"
             THEN DecodeQuotedPrintable(Tail(r))
             ELSE IF HexOk(hex)
             THEN <<HexByte(hex)>> \o DecodeQuotedPrintable(rest)
             ELSE <<61>> \o Ords(hex) \o DecodeQuotedPrintable(rest)

\* String::as_bytes: the UTF-8 encoding of characters with code points
\* below 256
RECURSIVE StringBytes(_)
StringBytes(cps) ==
    IF cps = <<>> THEN <<>>
    ELSE (IF Head(cps) < 128 THEN <<Head(cps)>>
          ELSE <<192 + (Head(cps) \div 64), 128 + (Head(cps) % 64)>>)
         \o StringBytes(Tail(cps))

\* decode_body decodes a quoted-printable body
DecodeQuotedPrintableCall(input) ==
    /\ call.fn = "none"
    /\ call' = [fn |-> "decode_quoted_printable", arg |-> input,
                res |-> StringBytes(DecodeQuotedPrintable(input))]
    /\ UNCHANGED connVars

\* the bytes the input is to decode to: "=" and a line break are removed,
\* "=" and two hex digits give the byte of that value, any other "=" and
\* every other character are copied
RECURSIVE QpReference(_)
QpReference(input) ==
    IF input = <<>> THEN <<>>
    ELSE IF Head(input) # "=" THEN <<Ord(Head(input))>> \o QpReference(Tail(input))
    ELSE IF Len(input) >= 3 /\ input[2] = "\r" /\ input[3] = "\n"
    THEN QpReference(SubSeq(input, 4, Len(input)))
    ELSE IF Len(input) >= 2 /\ input[2] = "\n"
    THEN QpReference(SubSeq(input, 3, Len(input)))
    ELSE IF Len(input) >= 3 /\ IsHexDigit(input[2]) /\ IsHexDigit(input[3])
    THEN <<16 * HexDigit(input[2]) + HexDigit(input[3])>>
         \o QpReference(SubSeq(input, 4, Len(input)))
    ELSE <<61>> \o QpReference(Tail(input))

\* C18: quoted-printable decoding gives, on every input, the bytes of the
\* reference: "=" followed by CRLF or LF is removed with the line break, "="
\* followed by two hex digits becomes the single byte of that value, "="
\* followed by anything else is copied with the characters after it, and
\* every other character is copied unchanged.
C18_QuotedPrintableReference ==
    call.fn = "decode_quoted_printable" => call.res = QpReference(call.arg)

(* ------------------------------- base64 --------------------------------- *)
\* the alphabet of the standard base64 engine
Base64Chars ==
    << "A", "B", "C", "D", "E", "F", "G", "H", "I", "J", "K", "L", "M", "N", "O", "P",
        "Q", "R", "S", "T", "U", "V", "W", "X", "Y", "Z", "a", "b", "c", "d", "e", "f",
        "g", "h", "i", "j", "k", "l", "m", "n", "o", "p", "q", "r", "s", "t", "u", "v",
        "w", "x", "y", "z", "0", "1", "2", "3", "4", "5", "6", "7", "8", "9", "+", "/" >>

IsBase64Char(ch) == \E i \in 1..Len(Base64Chars) : Base64Chars[i] = ch
Base64Val(ch) == (CHOOSE i \in 1..Len(Base64Chars) : Base64Chars[i] = ch) - 1
Base64Char(v) == Base64Chars[v + 1]

\* BASE64.encode on a sequence of bytes
RECURSIVE Base64Encode(_)
Base64Encode(bs) ==
    IF bs = <<>> THEN <<>>
    ELSE IF Len(bs) = 1
    THEN << Base64Char(bs[1] \div 4), Base64Char((bs[1] % 4) * 16), "=", "=" >>
    ELSE IF Len(bs) = 2
    THEN << Base64Char(bs[1] \div 4),
            Base64Char((bs[1] % 4) * 16 + (bs[2] \div 16)),
            Base64Char((bs[2] % 16) * 4), "=" >>
    ELSE << Base64Char(bs[1] \div 4),
            Base64Char((bs[1] % 4) * 16 + (bs[2] \div 16)),
            Base64Char((bs[2] % 16) * 4 + (bs[3] \div 64)),
            Base64Char(bs[3] % 64) >>
         \o Base64Encode(SubSeq(bs, 4, Len(bs)))

\* BASE64.decode returns Ok: whole quanta of four characters of the
\* alphabet, one or two "=" only at the very end, no bits set beyond the
\* last byte
Base64Ok(s) ==
    LET n == Len(s) IN
    /\ n % 4 = 0
    /\ \A i \in 1..n :
           \/ IsBase64Char(s[i])
           \/ s[i] = "=" /\ i >= n - 1 /\ s[n] = "="
    /\ n > 0 =>
           /\ (s[n] = "=" /\ s[n - 1] # "=") => Base64Val(s[n - 1]) % 4 = 0
           /\ s[n - 1] = "=" => Base64Val(s[n - 2]) % 16 = 0

\* the bytes BASE64.decode returns for an input it accepts
RECURSIVE Base64Bytes(_)
Base64Bytes(s) ==
    IF s = <<>> THEN <<>>
    ELSE LET a == Base64Val(s[1])
             b == Base64Val(s[2])
         IN  IF s[3] = "=" THEN << a * 4 + (b \div 16) >>
             ELSE LET c == Base64Val(s[3]) IN
                  IF s[4] = "="
                  THEN << a * 4 + (b \div 16), (b % 16) * 16 + (c \div 4) >>
                  ELSE << a * 4 + (b \div 16), (b % 16) * 16 + (c \div 4),
                          (c % 4) * 64 + Base64Val(s[4]) >>
                       \o Base64Bytes(SubSeq(s, 5, Len(s)))

\* String::from_utf8_lossy(..).to_string(), as the bytes of the String: a
\* byte below 0x80 and a two-byte sequence (a lead of 0xC2..0xDF and one
\* continuation byte) are kept, any other byte of the inputs is no part of
\* a UTF-8 sequence and becomes U+FFFD, the bytes EF BF BD
RECURSIVE FromUtf8Lossy(_)
FromUtf8Lossy(bs) ==
    IF bs = <<>> THEN <<>>
    ELSE IF bs[1] < 128 THEN <<bs[1]>> \o FromUtf8Lossy(Tail(bs))
    ELSE IF bs[1] \in 194..223 /\ Len(bs) >= 2 /\ bs[2] \in 128..191
    THEN <<bs[1], bs[2]>> \o FromUtf8Lossy(SubSeq(bs, 3, Len(bs)))
    ELSE <<239, 191, 189>> \o FromUtf8Lossy(Tail(bs))

(* ---------------------------- message parts ---------------------------- *)
StrContentType == <<"c","o","n","t","e","n","t","-","t","y","p","e">>
StrContentDisposition == <<"c","o","n","t","e","n","t","-","d","i","s","p","o","s","i","t","i","o","n">>
StrContentTransferEncoding == <<"c","o","n","t","e","n","t","-","t","r","a","n","s","f","e","r","-","e","n","c","o","d","i","n","g">>
StrQuotedPrintable == <<"q","u","o","t","e","d","-","p","r","i","n","t","a","b","l","e">>
StrBase64 == <<"b","a","s","e","6","4">>
StrDispositionAttachment == <<"c","o","n","t","e","n","t","-","d","i","s","p","o","s","i","t","i","o","n",":"," ","a","t","t","a","c","h","m","e","n","t">>
StrNameEq == <<"n","a","m","e","=">>
StrFilenameEq == <<"f","i","l","e","n","a","m","e","=">>
StrTextPlain == <<"t","e","x","t","/","p","l","a","i","n">>
StrTextHtml == <<"t","e","x","t","/","h","t","m","l">>

\* the Content-Type lines of the parts: none, text/plain, text/html,
\* image/png, and text/plain with a name parameter
ContentTypeLines ==
    { <<>>,
      <<"C","o","n","t","e","n","t","-","T","y","p","e",":"," ","t","e","x","t","/","p","l","a","i","n">>,
      <<"C","o","n","t","e","n","t","-","T","y","p","e",":"," ","t","e","x","t","/","h","t","m","l">>,
      <<"C","o","n","t","e","n","t","-","T","y","p","e",":"," ","i","m","a","g","e","/","p","n","g">>,
      <<"C","o","n","t","e","n","t","-","T","y","p","e",":"," ","t","e","x","t","/","p","l","a","i","n",";"," ","n","a","m","e","=","\"","n",".","t","x","t","\"">> }

\* the Content-Disposition lines of the parts: none, attachment with a
\* filename, attachment without one, attachment with no space after the
\* colon, attachment in upper case, and inline
DispositionLines ==
    { <<>>,
      <<"C","o","n","t","e","n","t","-","D","i","s","p","o","s","i","t","i","o","n",":"," ","a","t","t","a","c","h","m","e","n","t",";"," ","f","i","l","e","n","a","m","e","=","\"","a",".","t","x","t","\"">>,
      <<"C","o","n","t","e","n","t","-","D","i","s","p","o","s","i","t","i","o","n",":"," ","a","t","t","a","c","h","m","e","n","t">>,
      <<"C","o","n","t","e","n","t","-","D","i","s","p","o","s","i","t","i","o","n",":","a","t","t","a","c","h","m","e","n","t",";"," ","f","i","l","e","n","a","m","e","=","\"","a",".","t","x","t","\"">>,
      <<"C","o","n","t","e","n","t","-","D","i","s","p","o","s","i","t","i","o","n",":"," ","A","T","T","A","C","H","M","E","N","T",";"," ","f","i","l","e","n","a","m","e","=","a",".","t","x","t">>,
      <<"C","o","n","t","e","n","t","-","D","i","s","p","o","s","i","t","i","o","n",":"," ","i","n","l","i","n","e">> }

\* the headers of a binary attachment in base64: Content-Type
\* application/octet-stream, Content-Disposition attachment with the
\* filename a.txt, Content-Transfer-Encoding base64
Base64PartHeaders ==
    <<"C","o","n","t","e","n","t","-","T","y","p","e",":"," ","a","p","p","l","i","c","a","t","i","o","n","/","o","c","t","e","t","-","s","t","r","e","a","m","\r","\n","C","o","n","t","e","n","t","-","D","i","s","p","o","s","i","t","i","o","n",":"," ","a","t","t","a","c","h","m","e","n","t",";"," ","f","i","l","e","n","a","m","e","=","\"","a",".","t","x","t","\"","\r","\n","C","o","n","t","e","n","t","-","T","r","a","n","s","f","e","r","-","E","n","c","o","d","i","n","g",":"," ","b","a","s","e","6","4">>

\* str::find: the position of the first occurrence of pat in s, 0 if none
Find(s, pat) ==
    LET hits == { i \in 1..(Len(s) - Len(pat) + 1) : SubSeq(s, i, i + Len(pat) - 1) = pat }
    IN  IF hits = {} THEN 0 ELSE CHOOSE i \in hits : \A j \in hits : i <= j

\* s.split(pat).nth(1): what lies between the first occurrence of pat and
\* the next one, None when pat does not occur
SplitNth1(s, pat) ==
    LET i == Find(s, pat) IN
    IF i = 0 THEN None
    ELSE LET after == SubSeq(s, i + Len(pat), Len(s))
             j == Find(after, pat)
         IN  Some(IF j = 0 THEN after ELSE SubSeq(after, 1, j - 1))

\* str::trim_matches(char)
TrimMatches(s, ch) == TrimEndMatches(TrimStartMatches(s, ch), ch)

\* get_header: the trimmed value of the first line that starts with the name
\* and a colon, letter case ignored; empty when there is none
GetHeader(headers, name) ==
    LET ls == Lines(headers)
        hits == { i \in 1..Len(ls) : StartsWith(ToLower(ls[i]), ToLower(name) \o <<":">>) }
    IN  IF hits = {} THEN <<>>
        ELSE LET l == ls[CHOOSE i \in hits : \A j \in hits : i <= j]
             IN  Trim(SubSeq(l, Find(l, <<":">>) + 1, Len(l)))

\* body.replace(['\r', '\n'], "")
StripLineBreaks(s) == SelectSeq(s, LAMBDA ch : ch \notin {"\r", "\n"})

\* decode_body: the decoded body, as the bytes of the String returned
DecodeBody(body, headers) ==
    LET encoding == ToLower(GetHeader(headers, StrContentTransferEncoding)) IN
    IF encoding = StrQuotedPrintable THEN StringBytes(DecodeQuotedPrintable(body))
    ELSE IF encoding = StrBase64
    THEN LET b == StripLineBreaks(body)
         IN  IF Base64Ok(b) THEN FromUtf8Lossy(Base64Bytes(b)) ELSE Ords(body)
    ELSE Ords(body)

\* the filename of a value after "filename=" or "name="
Unquoted(v) == TrimMatches(TrimMatches(Trim(v), "\""), "'")

\* extract_filename
ExtractFilename(headers, content_type) ==
    LET cd == GetHeader(headers, StrContentDisposition)
        f == SplitNth1(cd, StrFilenameEq)
        n == SplitNth1(content_type, StrNameEq)
    IN  IF f # None THEN Some(Unquoted(f[1]))
        ELSE IF n # None THEN Some(Unquoted(n[1]))
        ELSE None

\* parse_multipart, is_attachment of a part
IsAttachment(part_headers, part_ct) ==
    \/ Contains(ToLower(part_headers), StrDispositionAttachment)
    \/ Contains(part_ct, StrNameEq)

\* parse_multipart, the body of its loop for one part with headers: what the
\* part adds to the attachments ("attachment", with filename and base64
\* content), to the HTML parts ("html") or to the text parts ("text"), or
\* that it adds nothing ("dropped")
ParsePart(part_headers, part_body) ==
    LET part_ct == ToLower(GetHeader(part_headers, StrContentType))
        decoded == DecodeBody(part_body, part_headers)
        filename == ExtractFilename(part_headers, part_ct)
    IN  IF \/ IsAttachment(part_headers, part_ct)
           \/ ~Contains(part_ct, StrTextPlain) /\ ~Contains(part_ct, StrTextHtml)
        THEN IF filename # None
             THEN [kind |-> "attachment", filename |-> filename,
                   content |-> Base64Encode(decoded)]
             ELSE [kind |-> "dropped", filename |-> None, content |-> <<>>]
        ELSE IF Contains(part_ct, StrTextHtml)
        THEN [kind |-> "html", filename |-> None, content |-> decoded]
        ELSE [kind |-> "text", filename |-> None, content |-> decoded]

StrCrLf == <<"\r", "\n">>

\* the header block of a part: the lines given, the empty ones left out
RECURSIVE HeaderBlock(_)
HeaderBlock(ls) ==
    IF ls = <<>> THEN <<>>
    ELSE IF Head(ls) = <<>> THEN HeaderBlock(Tail(ls))
    ELSE LET r == HeaderBlock(Tail(ls))
         IN  IF r = <<>> THEN Head(ls) ELSE Head(ls) \o StrCrLf \o r

\* the parts classified: every pairing of a Content-Type line, or none, with
\* a Content-Disposition line, or none, over a short plain body
ClassifiedParts ==
    { [headers |-> HeaderBlock(<<ct, cd>>), body |-> <<"x">>] :
          ct \in ContentTypeLines, cd \in DispositionLines }

\* parse_multipart handles one part
ParsePartCall(part) ==
    /\ call.fn = "none"
    /\ call' = [fn |-> "parse_part", arg |-> part,
                res |-> ParsePart(part.headers, part.body)]
    /\ UNCHANGED connVars

\* the part is to be an attachment: its Content-Disposition holds
\* "attachment", or its Content-Type holds "name=" or is neither text/plain
\* nor text/html
AttachmentPart(headers) ==
    LET cd == ToLower(GetHeader(headers, StrContentDisposition))
        ct == ToLower(GetHeader(headers, StrContentType))
    IN  \/ Contains(cd, <<"a","t","t","a","c","h","m","e","n","t">>)
        \/ Contains(ct, StrNameEq)
        \/ ~Contains(ct, StrTextPlain) /\ ~Contains(ct, StrTextHtml)

\* a filename can be determined for the part
NamedPart(headers) ==
    \/ Contains(GetHeader(headers, StrContentDisposition), StrFilenameEq)
    \/ Contains(ToLower(GetHeader(headers, StrContentType)), StrNameEq)

\* C19: a part of a multipart message is an attachment if its
\* Content-Disposition header holds "attachment", whatever the spacing or
\* letter case after the header name, or its Content-Type holds "name=", or
\* its Content-Type is neither text/plain nor text/html; such a part adds
\* nothing to the text or the HTML; it is added to the attachments exactly
\* when a filename can be determined from "filename=" of Content-Disposition
\* or else "name=" of Content-Type, and is dropped otherwise.
C19_AttachmentClassification ==
    (call.fn = "parse_part" /\ AttachmentPart(call.arg.headers)) =>
        /\ call.res.kind \in {"attachment", "dropped"}
        /\ call.res.kind = "attachment" <=> NamedPart(call.arg.headers)

\* the bytes of the attached files
FileBytes == {65, 169, 195, 255}

MaxFileLen == 3

\* the attachment parts with a base64 body: the encoding of every file of
\* one to MaxFileLen of the bytes
Base64Parts ==
    { [headers |-> Base64PartHeaders, body |-> Base64Encode(bs)] :
          bs \in Messages({ <<b>> : b \in FileBytes }, MaxFileLen) \ {<<>>} }

\* C20: for an attachment part whose transfer encoding is base64 and whose
\* body is valid base64 of any bytes, bytes that are not UTF-8 included, the
\* content of the attachment is the base64 encoding of exactly those bytes.
C20_AttachmentRoundTrip ==
    (/\ call.fn = "parse_part"
     /\ ToLower(GetHeader(call.arg.headers, StrContentTransferEncoding)) = StrBase64
     /\ Base64Ok(StripLineBreaks(call.arg.body))
     /\ call.res.kind = "attachment")
        => call.res.content =
               Base64Encode(Base64Bytes(StripLineBreaks(call.arg.body)))

(* --------------------------- envelope shapes ---------------------------- *)
\* the shape of a session's envelope: its sender (from) and its recipient
\* list (to)
EnvelopeShape(s) ==
    IF s.from = None
    THEN IF s.to = <<>> THEN "Fresh" ELSE "RecipientsOnly"
    ELSE IF s.to = <<>> THEN "HaveFrom" ELSE "HaveRecipients"

\* C22: in every reachable state of a connection a non-empty recipient list
\* implies that the sender is set: the envelope is Fresh, HaveFrom or
\* HaveRecipients, never recipients without a sender, whatever commands and
\* data phases came before; the same holds of the session each command and
\* each data line was read in.
C22_RecipientsNeedSender ==
    \A c \in Conns :
        /\ session[c].to # <<>> => session[c].from # None
        /\ EnvelopeShape(session[c]) \in {"Fresh", "HaveFrom", "HaveRecipients"}
        /\ EnvelopeShape(last[c].pre) # "RecipientsOnly"

\* C22 witness: a MAIL was accepted and answered 250; the RCPT just handled
\* found a sender and no recipient and leaves a sender and one recipient
C22_Witness ==
    \E c \in Accepted :
        /\ AfterCommand(c)
        /\ Verb(last[c].line) = VerbRcpt
        /\ resp[c].code = 250
        /\ EnvelopeShape(last[c].pre) = "HaveFrom"
        /\ EnvelopeShape(session[c]) = "HaveRecipients"
        /\ last[c].w = 250
        /\ accepted[c].mail = Some(LineMailLower)

\* C23: an accepted MAIL changes only the sender: the sender becomes the
\* address of the MAIL line, whatever sender was set before, and the
\* recipient list and the mode are as they were; a DATA read when a MAIL and
\* at least one RCPT were accepted since the last reset, in either order of
\* the last MAIL and the RCPTs, is answered 354 with the sender of the last
\* accepted MAIL and every recipient accepted, in order.
C23_MailChangesOnlySender ==
    \A c \in Accepted :
        /\ (AfterCommand(c) /\ Verb(last[c].line) = VerbMail
                /\ resp[c].code = 250)
               => /\ session[c].from = Some(LineAddress(last[c].line))
                  /\ session[c].to = last[c].pre.to
                  /\ session[c].data = last[c].pre.data
                  /\ session[c].expecting_data = last[c].pre.expecting_data
                  /\ accepted[c].rcpt = last[c].acc.rcpt
        /\ (AfterCommand(c) /\ Verb(last[c].line) = VerbData
                /\ last[c].acc.mail # None /\ last[c].acc.rcpt # <<>>)
               => /\ resp[c].code = 354
                  /\ session[c].expecting_data
                  /\ session[c].from = Some(LineAddress(last[c].acc.mail[1]))
                  /\ session[c].to =
                         [k \in 1..Len(last[c].acc.rcpt) |->
                              LineAddress(last[c].acc.rcpt[k])]

\* C23 witness: a MAIL read with another sender and two recipients set was
\* answered 250: the sender is the new one and both recipients are kept
C23_Witness ==
    \E c \in Accepted :
        /\ AfterCommand(c)
        /\ last[c].line = LineMailLower
        /\ resp[c].code = 250
        /\ last[c].pre.from = Some(AddrA)
        /\ last[c].pre.to = <<AddrB, AddrC>>
        /\ session[c].from = Some(AddrC)
        /\ session[c].to = <<AddrB, AddrC>>

(* ------------------------------ messages -------------------------------- *)
\* split_headers_body: the text before and the text after the first
\* "\r\n\r\n", or else the first "\n\n"; None when there is neither
SplitHeadersBody(raw_data) ==
    LET i == Find(raw_data, <<"\r","\n","\r","\n">>)
        j == Find(raw_data, <<"\n","\n">>)
    IN  IF i # 0
        THEN Some([headers |-> SubSeq(raw_data, 1, i - 1),
                   body |-> SubSeq(raw_data, i + 4, Len(raw_data))])
        ELSE IF j # 0
        THEN Some([headers |-> SubSeq(raw_data, 1, j - 1),
                   body |-> SubSeq(raw_data, j + 2, Len(raw_data))])
        ELSE None

\* str::split(&str): the pieces of s between the occurrences of pat
RECURSIVE Split(_, _)
Split(s, pat) ==
    LET i == Find(s, pat) IN
    IF i = 0 THEN <<s>>
    ELSE <<SubSeq(s, 1, i - 1)>> \o Split(SubSeq(s, i + Len(pat), Len(s)), pat)

\* [String]::join: the items with sep between them
RECURSIVE JoinWith(_, _)
JoinWith(items, sep) ==
    IF items = <<>> THEN <<>>
    ELSE IF Len(items) = 1 THEN items[1]
    ELSE items[1] \o sep \o JoinWith(Tail(items), sep)

\* parse_multipart, its loop over the pieces of the body: what each piece
\* that is not skipped adds, with the Content-Type of the piece
RECURSIVE ParseParts(_)
ParseParts(pieces) ==
    IF pieces = <<>> THEN <<>>
    ELSE LET part == Trim(Head(pieces))
             hb == SplitHeadersBody(part)
         IN  (IF part = <<>> \/ part = <<"-","-">> \/ hb = None THEN <<>>
              ELSE << [part |-> ParsePart(hb[1].headers, hb[1].body),
                       content_type |-> GetHeader(hb[1].headers, StrContentType)] >>)
             \o ParseParts(Tail(pieces))

\* what a decoder returns when the whole of s is the text
WholeAsText(s) == [text |-> Some(s), html |-> None, attachments |-> None]

\* faulty variant: a multipart message without a boundary yields no content
ParseMultipartNoFallback(body, headers) ==
    [text |-> None, html |-> None, attachments |-> None]

\* parse_multipart, after its loop: the text parts joined, the HTML parts
\* joined and the attachments, each None when there is none; text and html
\* as the bytes of the Strings returned
Collected(rs) ==
    LET Of(kind) == SelectSeq(rs, LAMBDA r : r.part.kind = kind)
        Contents(ps) == [i \in 1..Len(ps) |-> ps[i].part.content]
        text_parts == Contents(Of("text"))
        html_parts == Contents(Of("html"))
        attachments ==
            [i \in 1..Len(Of("attachment")) |->
                 [filename |-> Of("attachment")[i].part.filename[1],
                  content |-> Of("attachment")[i].part.content,
                  content_type |-> Some(Of("attachment")[i].content_type)]]
    IN  [text |-> IF text_parts = <<>> THEN None
                  ELSE Some(JoinWith(text_parts, <<10, 10>>)),
         html |-> IF html_parts = <<>> THEN None
                  ELSE Some(JoinWith(html_parts, Ords(<<"<","b","r",">","<","b","r",">">>))),
         attachments |-> IF attachments = <<>> THEN None
                         ELSE Some(attachments)]

\* parse_multipart
ParseMultipart(body, headers) ==
    LET boundary == SplitNth1(GetHeader(headers, StrContentType),
                              <<"b","o","u","n","d","a","r","y","=">>)
    IN  IF boundary = None THEN WholeAsText(Ords(body))
        ELSE Collected(ParseParts(Split(body, <<"-","-">> \o Unquoted(boundary[1]))))

\* parse_email: (text, html, attachments)
ParseEmail(raw_data) ==
    LET hb == SplitHeadersBody(raw_data) IN
    IF hb = None THEN WholeAsText(Ords(raw_data))
    ELSE LET headers == hb[1].headers
             body == hb[1].body
             content_type == ToLower(GetHeader(headers, StrContentType))
         IN  IF ~StartsWith(content_type, <<"m","u","l","t","i","p","a","r","t","/">>)
             THEN IF Contains(content_type, StrTextHtml)
                  THEN [text |-> None, html |-> Some(DecodeBody(body, headers)),
                        attachments |-> None]
                  ELSE WholeAsText(DecodeBody(body, headers))
             ELSE ParseMultipart(body, headers)

\* the Content-Type header lines of the messages decoded: none; multipart
\* without a boundary, also in other letter case, with another parameter,
\* with the parameter name in upper case, and with the boundary on a
\* continuation line; multipart with the boundary XYZ; text/html; text/plain
EmailContentTypes ==
    { <<>>,
      <<"C","o","n","t","e","n","t","-","T","y","p","e",":"," ","m","u","l","t","i","p","a","r","t","/","m","i","x","e","d">>,
      <<"c","o","n","t","e","n","t","-","t","y","p","e",":"," "," ","M","U","L","T","I","P","A","R","T","/","A","l","t","e","r","n","a","t","i","v","e",";"," ","c","h","a","r","s","e","t","=","u","t","f","-","8">>,
      <<"C","o","n","t","e","n","t","-","T","y","p","e",":"," ","m","u","l","t","i","p","a","r","t","/","m","i","x","e","d",";"," ","B","O","U","N","D","A","R","Y","=","X","Y","Z">>,
      <<"C","o","n","t","e","n","t","-","T","y","p","e",":"," ","m","u","l","t","i","p","a","r","t","/","m","i","x","e","d",";","\r","\n"," ","b","o","u","n","d","a","r","y","=","X","Y","Z">>,
      <<"C","o","n","t","e","n","t","-","T","y","p","e",":"," ","m","u","l","t","i","p","a","r","t","/","m","i","x","e","d",";"," ","b","o","u","n","d","a","r","y","=","\"","X","Y","Z","\"">>,
      <<"C","o","n","t","e","n","t","-","T","y","p","e",":"," ","t","e","x","t","/","h","t","m","l">>,
      <<"C","o","n","t","e","n","t","-","T","y","p","e",":"," ","t","e","x","t","/","p","l","a","i","n">> }

\* the other header line of a message: none, a transfer encoding, a subject
EmailOtherHeaders ==
    { <<>>,
      <<"C","o","n","t","e","n","t","-","T","r","a","n","s","f","e","r","-","E","n","c","o","d","i","n","g",":"," ","b","a","s","e","6","4">>,
      <<"S","u","b","j","e","c","t",":"," ","H","i">> }

\* the bodies: empty, one line, one line of base64, two parts between XYZ
\* delimiters, and lines with empty lines between them
EmailBodies ==
    { <<>>,
      <<"h","e","l","l","o","\r","\n">>,
      <<"a","G","k","=","\r","\n">>,
      <<"-","-","X","Y","Z","\r","\n","C","o","n","t","e","n","t","-","T","y","p","e",":"," ","t","e","x","t","/","p","l","a","i","n","\r","\n","\r","\n","h","e","l","l","o","\r","\n","-","-","X","Y","Z","\r","\n","C","o","n","t","e","n","t","-","T","y","p","e",":"," ","t","e","x","t","/","h","t","m","l","\r","\n","\r","\n","<","b",">","h","i","<","/","b",">","\r","\n","-","-","X","Y","Z","-","-","\r","\n">>,
      <<"a","\r","\n","\r","\n","b","\n","\n","c">> }

\* the line terminators a client ends its header lines with
Eols == { <<"\r","\n">>, <<"\n">> }

\* the header lines given, the empty ones left out, each with the terminator
RECURSIVE HeaderLines(_, _)
HeaderLines(ls, eol) ==
    IF ls = <<>> THEN <<>>
    ELSE (IF Head(ls) = <<>> THEN <<>> ELSE Head(ls) \o eol)
         \o HeaderLines(Tail(ls), eol)

\* the messages decoded, as handle_connection joins their lines: header
\* lines, an empty line and a body, and header lines alone
EmailInputs ==
    { HeaderLines(<<oh, ct>>, eol) \o eol \o body :
          ct \in EmailContentTypes, oh \in EmailOtherHeaders,
          eol \in Eols, body \in EmailBodies }
    \cup { HeaderLines(<<oh, ct>>, eol) :
               ct \in EmailContentTypes, oh \in EmailOtherHeaders, eol \in Eols }

\* send_email of the Resend strategy decodes the raw message
ParseEmailCall(raw_data) ==
    /\ call.fn = "none"
    /\ call' = [fn |-> "parse_email", arg |-> raw_data,
                res |-> ParseEmail(raw_data)]
    /\ UNCHANGED connVars

\* the message has a header block whose Content-Type starts with
\* "multipart/", in any letter case, and holds no "boundary="
MultipartWithoutBoundary(raw_data) ==
    LET hb == SplitHeadersBody(raw_data) IN
    /\ hb # None
    /\ LET ct == GetHeader(hb[1].headers, StrContentType)
       IN  /\ StartsWith(ToLower(ct), <<"m","u","l","t","i","p","a","r","t","/">>)
           /\ ~Contains(ct, <<"b","o","u","n","d","a","r","y","=">>)

\* C21: for every message whose Content-Type starts with "multipart/" and
\* holds no "boundary=" parameter, the decoder returns the whole body, the
\* text after the separator of headers and body, as text, with no HTML and no
\* attachments; it returns a result, not an error.
C21_MissingBoundaryWholeBodyAsText ==
    (call.fn = "parse_email" /\ MultipartWithoutBoundary(call.arg))
        => call.res = WholeAsText(Ords(SplitHeadersBody(call.arg)[1].body))

\* C21 witness: a multipart/mixed message without a boundary whose body holds
\* two parts between delimiters was decoded: the text is the whole body with
\* its delimiters
C21_Witness ==
    /\ call.fn = "parse_email"
    /\ MultipartWithoutBoundary(call.arg)
    /\ Contains(call.arg, <<"-","-","X","Y","Z","\r","\n","C","o","n","t","e","n","t","-","T","y","p","e",":"," ","t","e","x","t","/","p","l","a","i","n">>)
    /\ call.res.text # None
    /\ Len(call.res.text[1]) > 80
    /\ call.res.html = None
    /\ call.res.attachments = None

(* ---------------------- the functions, applied once --------------------- *)
NextFn ==
    \/ \E data \in Messages(SubjectLines, MaxMsgLines) : ExtractSubjectCall(data)
    \/ \E input \in QpInputs : DecodeQuotedPrintableCall(input)
    \/ \E part \in ClassifiedParts \cup Base64Parts : ParsePartCall(part)
    \/ \E raw_data \in EmailInputs : ParseEmailCall(raw_data)

SpecFn == InitFn /\ [][NextFn]_vars

====
